---- MODULE Spec2Model ----
(***************************************************************************)
(* Verification model of stelro/lock_free_ring_buffers:                    *)
(*   - mpmc_bounded_queue   (per-slot sequence, fetch_add tickets)         *)
(*   - lock_free_spsc_queue (one producer, one consumer, N-1 policy)       *)
(*   - bounded_mpmc_pool    (MPMC queue + counting semaphore + workers)    *)
(* Every atomic access of the source is one step of the thread doing it.   *)
(* Three specifications share the module: SpecMPMC, SpecSPSC and SpecPool  *)
(* (and their fair versions); each leaves the other components' variables  *)
(* at their constructed values.                                            *)
(***************************************************************************)
EXTENDS Integers, Sequences, FiniteSets, TLC

(***************************************************************************)
(* Bounds of the model.                                                    *)
(***************************************************************************)
\* capacity requested from the mpmc_bounded_queue constructor
ReqCap == 2
\* total number of try_enqueue calls (producer tickets) in one behaviour
TicketCap == 3

\* the threads driving the bare MPMC queue
Producers == {1, 2}
Consumers == {1, 2}

\* "no payload": raw storage that holds no constructed T
NoVal == 0
\* history entry of a ticket whose operation has not succeeded
Absent == 0 - 1

(***************************************************************************)
(* Bit operations on size_t, computed bit by bit as the hardware does.     *)
(***************************************************************************)
RECURSIVE BitAnd(_, _)
BitAnd(a, b) ==
    IF a = 0 \/ b = 0 THEN 0
    ELSE (a % 2) * (b % 2) + 2 * BitAnd(a \div 2, b \div 2)

RECURSIVE BitOr(_, _)
BitOr(a, b) ==
    IF a = 0 THEN b
    ELSE IF b = 0 THEN a
    ELSE (IF a % 2 = 1 \/ b % 2 = 1 THEN 1 ELSE 0) + 2 * BitOr(a \div 2, b \div 2)

\* n >> i
RECURSIVE ShiftRight(_, _)
ShiftRight(n, i) == IF i = 0 \/ n = 0 THEN n ELSE ShiftRight(n \div 2, i - 1)

\* the shift amounts 1, 2, 4, ..., 32 of round_up_pow2's loop on a 64-bit size_t
SmearShifts == <<1, 2, 4, 8, 16, 32>>

RECURSIVE Smear(_, _)
Smear(n, k) ==
    IF k > Len(SmearShifts) THEN n
    ELSE Smear(BitOr(n, ShiftRight(n, SmearShifts[k])), k + 1)

\* mpmc_bounded_queue::round_up_pow2
round_up_pow2(n) == IF n < 2 THEN 2 ELSE Smear(n - 1, 1) + 1

(***************************************************************************)
(* mpmc_bounded_queue                                                      *)
(***************************************************************************)
VARIABLES
    capacity    \* the constructor's argument (the requested capacity)

\* round_up_pow2 of every capacity a queue of the model is constructed with
CapacityOf == [n \in 0..(2 * ReqCap) |-> round_up_pow2(n)]

\* constructor: cap_(round_up_pow2(capacity))
cap_ == CapacityOf[capacity]
mask_ == cap_ - 1
SlotIdx == 0..(cap_ - 1)

VARIABLES
    head_,      \* consumer ticket counter
    tail_,      \* producer ticket counter
    seq,        \* seq[i]: sequence number of slot i
    storage,    \* storage[i]: the payload constructed in slot i, or NoVal
    ppc, ppos, pval, pcalls,   \* producer threads: position, ticket, argument, calls made
    cpc, cpos, cout,           \* consumer threads: position, ticket, out parameter
    enqAt,      \* history: enqAt[k] = value published by producer ticket k, or Absent
    deqAt,      \* history: deqAt[k] = value returned to consumer ticket k, or Absent
    enqOrder,   \* history: values published, in the order of the seq stores of try_enqueue
    deqOrder    \* history: values returned, in the order of the seq stores of try_dequeue

qvars == <<head_, tail_, seq, storage>>
mvars == <<ppc, ppos, pval, pcalls, cpc, cpos, cout, enqAt, deqAt, enqOrder, deqOrder>>

VARIABLES
    d_pc,       \* ~mpmc_bounded_queue: "alive", "loop" (inside while (h != t)), "freed"
    d_h, d_t,   \* ~mpmc_bounded_queue: locals h and t
    d_removed   \* history: payloads removed by the destructor, in order

lvars == <<capacity, d_pc, d_h, d_t, d_removed>>

VARIABLES
    spsc_cap,   \* cap_
    spsc_head,  \* head_: written by the consumer only
    spsc_tail,  \* tail_: written by the producer only
    buffer_,    \* buffer_[i]: the T constructed in cell i, or NoVal
    push_pc, push_tail, push_next,   \* producer: position, locals tail and next
    pop_pc, pop_head, pop_value,     \* consumer: position, locals head and value
    pushed,     \* history: values accepted by try_push, in order
    popped,     \* history: values returned by try_pop, in order
    ms_pc, ms_head,   \* a thread calling maybe_size(): position, local head
    ms_size     \* the value its last maybe_size() call returned

svars == <<spsc_cap, spsc_head, spsc_tail, buffer_, push_pc, push_tail, push_next,
           pop_pc, pop_head, pop_value, pushed, popped, ms_pc, ms_head, ms_size>>

VARIABLES
    stop_,      \* bounded_mpmc_pool::stop_
    sem_,       \* permits of bounded_mpmc_pool::sem_
    sub_pc, sub_pos, sub_task,   \* submitting threads: position, ticket, task being submitted
    nsubmit,    \* number of submit() calls begun; the next task is nsubmit + 1
    w_pc, w_pos, w_task,         \* worker threads: position, ticket, local Task task
    sh_pc, sh_i,                 \* threads calling shutdown(): position, loop index
    joined,     \* joined[w]: worker w's std::thread has been joined
    path,       \* history: path[t] = how submit handed task t on ("fast", "slow")
    ret,        \* history: ret[t] = how submit(t) ended ("true", "bad_function_call")
    executed,   \* history: executed[t] = times a worker invoked task t
    caller_ran, \* history: caller_ran[t] = times the submitting thread invoked task t
    wake_permits, \* history: permits released by shutdown()
    stop_flips,   \* history: times stop_ changed
    terminated    \* std::terminate was called: the process is gone

pvars == <<stop_, sem_, sub_pc, sub_pos, sub_task, nsubmit, w_pc, w_pos, w_task,
           sh_pc, sh_i, joined, path, ret, executed, caller_ran,
           wake_permits, stop_flips, terminated>>

vars == <<qvars, mvars, svars, pvars, lvars>>

Tickets == 0..TicketCap

\* slots_[pos & mask_]
SlotOf(pos) == BitAnd(pos, mask_)

\* constructor: head_(0), tail_(0), slot i built with seq = i and raw storage
QueueInit(c) ==
    /\ capacity = c
    /\ d_pc = "alive" /\ d_h = 0 /\ d_t = 0 /\ d_removed = <<>>
    /\ head_ = 0
    /\ tail_ = 0
    /\ seq = [i \in SlotIdx |-> i]
    /\ storage = [i \in SlotIdx |-> NoVal]

\* tail_.fetch_add(1): the new value of tail_ (the ticket is the old one)
tail_fetch_add == tail_ + 1

\* head_.fetch_add(1): the new value of head_.  No producer ticket reaches
\* TicketCap, so every consumer ticket >= TicketCap fails its seq test in the
\* same way; the model lets head_ rest at TicketCap to stand for all of them.
head_fetch_add == IF head_ < TicketCap THEN head_ + 1 ELSE head_

\* faulty variant: try_enqueue takes the slot whatever its seq
enqueue_ready_always(s, pos) == TRUE

\* try_enqueue: diff = seq - pos; the slot is taken when diff == 0
enqueue_ready(s, pos) == s - pos = 0

\* try_enqueue: s.seq.store(pos + 1)
enqueue_seq(pos) == pos + 1

\* faulty variant: try_dequeue accepts a slot that is not yet published (diff <= 0)
dequeue_ready_early(s, pos) == s - (pos + 1) <= 0

\* try_dequeue: diff = seq - (pos + 1); the slot is read when diff == 0
dequeue_ready(s, pos) == s - (pos + 1) = 0

\* faulty variant: try_dequeue stores one more than pos + cap_
dequeue_seq_off_by_one(pos) == pos + cap_ + 1

\* try_dequeue: s.seq.store(pos + cap_)
dequeue_seq(pos) == pos + cap_

\* Slot::put / storage_put: placement-new of the value into the raw storage
storage_put(pos, v) == storage' = [storage EXCEPT ![SlotOf(pos)] = v]

\* faulty variant: the payload is moved out but left alive in the slot
storage_take_keep(pos) == UNCHANGED storage

\* Slot::remove / storage_take: move the payload out and destroy it in place
storage_take(pos) == storage' = [storage EXCEPT ![SlotOf(pos)] = NoVal]

(***************************************************************************)
(* Producer threads of the bare queue: the n-th call of producer p is      *)
(* try_enqueue(Value(p, n)), a value tagged with the producer and its      *)
(* counter.                                                                *)
(***************************************************************************)
Value(p, n) == p * (TicketCap + 1) + n
ProducerOf(v) == v \div (TicketCap + 1)
CounterOf(v) == v % (TicketCap + 1)

\* pos = tail_.fetch_add(1, acq_rel)
try_enqueue_fetch_add(p) ==
    /\ ppc[p] = "idle"
    /\ tail_ < TicketCap
    /\ ppos' = [ppos EXCEPT ![p] = tail_]
    /\ tail_' = tail_fetch_add
    /\ pcalls' = [pcalls EXCEPT ![p] = @ + 1]
    /\ pval' = [pval EXCEPT ![p] = Value(p, pcalls[p] + 1)]
    /\ ppc' = [ppc EXCEPT ![p] = "enq_load"]
    /\ UNCHANGED <<head_, seq, storage, cpc, cpos, cout, enqAt, deqAt>>
    /\ UNCHANGED <<enqOrder, deqOrder>>
    /\ UNCHANGED <<svars, pvars, lvars>>

\* faulty variant: try_enqueue waits until the slot is free instead of returning false
try_enqueue_load_wait(p) ==
    /\ ppc[p] = "enq_load"
    /\ enqueue_ready(seq[SlotOf(ppos[p])], ppos[p])
    /\ ppc' = [ppc EXCEPT ![p] = "enq_put"]
    /\ UNCHANGED <<pval, ppos>>
    /\ UNCHANGED <<qvars, pcalls, cpc, cpos, cout, enqAt, deqAt>>
    /\ UNCHANGED <<enqOrder, deqOrder>>
    /\ UNCHANGED <<svars, pvars, lvars>>

\* seq = s.seq.load(acquire); if (diff != 0) return false
try_enqueue_load(p) ==
    /\ ppc[p] = "enq_load"
    /\ IF enqueue_ready(seq[SlotOf(ppos[p])], ppos[p])
          THEN /\ ppc' = [ppc EXCEPT ![p] = "enq_put"]
               /\ UNCHANGED <<pval, ppos>>
          ELSE /\ ppc' = [ppc EXCEPT ![p] = "idle"]
               /\ pval' = [pval EXCEPT ![p] = NoVal]
               /\ ppos' = [ppos EXCEPT ![p] = 0]
    /\ UNCHANGED <<qvars, pcalls, cpc, cpos, cout, enqAt, deqAt>>
    /\ UNCHANGED <<enqOrder, deqOrder>>
    /\ UNCHANGED <<svars, pvars, lvars>>

\* s.put(std::move(value))
try_enqueue_put(p) ==
    /\ ppc[p] = "enq_put"
    /\ storage_put(ppos[p], pval[p])
    /\ ppc' = [ppc EXCEPT ![p] = "enq_store"]
    /\ UNCHANGED <<head_, tail_, seq, ppos, pval, pcalls, cpc, cpos, cout,
                   enqAt, deqAt>>
    /\ UNCHANGED <<enqOrder, deqOrder>>
    /\ UNCHANGED <<svars, pvars, lvars>>

\* s.seq.store(pos + 1, release); return true
try_enqueue_store(p) ==
    /\ ppc[p] = "enq_store"
    /\ seq' = [seq EXCEPT ![SlotOf(ppos[p])] = enqueue_seq(ppos[p])]
    /\ enqAt' = [enqAt EXCEPT ![ppos[p]] = pval[p]]
    /\ enqOrder' = Append(enqOrder, pval[p])
    /\ UNCHANGED deqOrder
    /\ ppc' = [ppc EXCEPT ![p] = "idle"]
    /\ pval' = [pval EXCEPT ![p] = NoVal]
    /\ ppos' = [ppos EXCEPT ![p] = 0]
    /\ UNCHANGED <<head_, tail_, storage, pcalls, cpc, cpos, cout, deqAt>>
    /\ UNCHANGED <<svars, pvars, lvars>>

(***************************************************************************)
(* Consumer threads of the bare queue: each calls try_dequeue(out) again   *)
(* and again.                                                              *)
(***************************************************************************)
\* pos = head_.fetch_add(1, acq_rel)
try_dequeue_fetch_add(c) ==
    /\ cpc[c] = "idle"
    /\ cpos' = [cpos EXCEPT ![c] = head_]
    /\ head_' = head_fetch_add
    /\ cpc' = [cpc EXCEPT ![c] = "deq_load"]
    /\ UNCHANGED <<tail_, seq, storage, ppc, ppos, pval, pcalls, cout,
                   enqAt, deqAt>>
    /\ UNCHANGED <<enqOrder, deqOrder>>
    /\ UNCHANGED <<svars, pvars, lvars>>

\* faulty variant: a try_dequeue that returns false resets the caller's output variable
try_dequeue_load_clear(c) ==
    /\ cpc[c] = "deq_load"
    /\ IF dequeue_ready(seq[SlotOf(cpos[c])], cpos[c])
          THEN cpc' = [cpc EXCEPT ![c] = "deq_take"] /\ UNCHANGED <<cpos, cout>>
          ELSE /\ cpc' = [cpc EXCEPT ![c] = "idle"]
               /\ cpos' = [cpos EXCEPT ![c] = 0]
               /\ cout' = [cout EXCEPT ![c] = NoVal]
    /\ UNCHANGED <<qvars, ppc, ppos, pval, pcalls, enqAt, deqAt>>
    /\ UNCHANGED <<enqOrder, deqOrder>>
    /\ UNCHANGED <<svars, pvars, lvars>>

\* seq = s.seq.load(acquire); if (diff != 0) return false
try_dequeue_load(c) ==
    /\ cpc[c] = "deq_load"
    /\ IF dequeue_ready(seq[SlotOf(cpos[c])], cpos[c])
          THEN cpc' = [cpc EXCEPT ![c] = "deq_take"] /\ UNCHANGED cpos
          ELSE cpc' = [cpc EXCEPT ![c] = "idle"] /\ cpos' = [cpos EXCEPT ![c] = 0]
    /\ UNCHANGED <<qvars, ppc, ppos, pval, pcalls, cout, enqAt, deqAt>>
    /\ UNCHANGED <<enqOrder, deqOrder>>
    /\ UNCHANGED <<svars, pvars, lvars>>

\* value = std::move(s.remove())
try_dequeue_take(c) ==
    /\ cpc[c] = "deq_take"
    /\ cout' = [cout EXCEPT ![c] = storage[SlotOf(cpos[c])]]
    /\ storage_take(cpos[c])
    /\ cpc' = [cpc EXCEPT ![c] = "deq_store"]
    /\ UNCHANGED <<head_, tail_, seq, ppc, ppos, pval, pcalls, cpos,
                   enqAt, deqAt>>
    /\ UNCHANGED <<enqOrder, deqOrder>>
    /\ UNCHANGED <<svars, pvars, lvars>>

\* s.seq.store(pos + cap_, release); return true
try_dequeue_store(c) ==
    /\ cpc[c] = "deq_store"
    /\ seq' = [seq EXCEPT ![SlotOf(cpos[c])] = dequeue_seq(cpos[c])]
    /\ deqAt' = [deqAt EXCEPT ![cpos[c]] = cout[c]]
    /\ deqOrder' = Append(deqOrder, cout[c])
    /\ UNCHANGED enqOrder
    /\ cpc' = [cpc EXCEPT ![c] = "idle"]
    /\ cpos' = [cpos EXCEPT ![c] = 0]
    /\ UNCHANGED <<head_, tail_, storage, ppc, ppos, pval, pcalls, cout, enqAt>>
    /\ UNCHANGED <<svars, pvars, lvars>>

MInit ==
    /\ ppc = [p \in Producers |-> "idle"]
    /\ ppos = [p \in Producers |-> 0]
    /\ pval = [p \in Producers |-> NoVal]
    /\ pcalls = [p \in Producers |-> 0]
    /\ cpc = [c \in Consumers |-> "idle"]
    /\ cpos = [c \in Consumers |-> 0]
    /\ cout = [c \in Consumers |-> NoVal]
    /\ enqAt = [k \in Tickets |-> Absent]
    /\ deqAt = [k \in Tickets |-> Absent]
    /\ enqOrder = <<>>
    /\ deqOrder = <<>>

\* no try_enqueue or try_dequeue call is in progress
MpmcQuiescent ==
    /\ \A p \in Producers : ppc[p] = "idle"
    /\ \A c \in Consumers : cpc[c] = "idle"

\* A single-threaded use of the queue: a call begins only when no call is in
\* progress, so calls never overlap.
call_try_enqueue(p) == MpmcQuiescent /\ try_enqueue_fetch_add(p)
call_try_dequeue(c) == MpmcQuiescent /\ try_dequeue_fetch_add(c)

\* std::size_t arithmetic is modulo 2^64.  The counters of the model stay at
\* or below TicketCap, so a modulus of 2^16 keeps every difference of two
\* counters apart from every count of held items, as 2^64 does.
SizeMod == 2^16

\* t - h1 on std::size_t
size_sub(t, h) == (t - h + SizeMod) % SizeMod

\* mpmc_bounded_queue::maybe_size(): h1 = head_, t = tail_, h2 = head_; the
\* value returned when h1 == h2
mpmc_maybe_size == size_sub(tail_, head_)

(***************************************************************************)
(* ~mpmc_bounded_queue, run by one thread once no call is in progress; no  *)
(* call is made on the queue afterwards.                                   *)
(***************************************************************************)
\* h = head_.load(relaxed).  head_ = TicketCap stands for every value of
\* head_ from TicketCap up, so h is TicketCap or beyond it.
dtor_head == IF head_ = TicketCap THEN {TicketCap, TicketCap + 1} ELSE {head_}

\* h = head_.load(relaxed); t = tail_.load(relaxed)
dtor_begin ==
    /\ d_pc = "alive"
    /\ MpmcQuiescent
    /\ d_h' \in dtor_head
    /\ d_t' = tail_
    /\ d_pc' = "loop"
    /\ UNCHANGED <<capacity, d_removed>>
    /\ UNCHANGED <<qvars, mvars, svars, pvars>>

\* one round of while (h != t): if (s.seq == h + 1) { s.remove(); s.seq.store(h + capacity_); } ++h.
\* When h is above t the loop can only end by h wrapping around at 2^64; no
\* slot is published under a ticket above t, so those rounds change nothing
\* and are taken as one step to h = 0.
dtor_visit ==
    /\ d_pc = "loop"
    /\ d_h # d_t
    /\ IF d_h > d_t
          THEN /\ d_h' = 0
               /\ UNCHANGED <<seq, storage, d_removed>>
          ELSE /\ d_h' = d_h + 1
               /\ IF seq[SlotOf(d_h)] = d_h + 1
                     THEN /\ d_removed' = Append(d_removed, storage[SlotOf(d_h)])
                          /\ storage_take(d_h)
                          /\ seq' = [seq EXCEPT ![SlotOf(d_h)] = dequeue_seq(d_h)]
                     ELSE UNCHANGED <<seq, storage, d_removed>>
    /\ UNCHANGED <<capacity, d_pc, d_t, head_, tail_>>
    /\ UNCHANGED <<mvars, svars, pvars>>

\* the loop has ended: slots_[i].~Slot() for every i, operator delete[](slots_)
dtor_free ==
    /\ d_pc = "loop"
    /\ d_h = d_t
    /\ d_pc' = "freed"
    /\ UNCHANGED <<capacity, d_h, d_t, d_removed>>
    /\ UNCHANGED <<qvars, mvars, svars, pvars>>

\* a step of a try_enqueue or try_dequeue call on the queue while it is alive
queue_call ==
    /\ d_pc = "alive"
    /\ \/ \E p \in Producers : try_enqueue_fetch_add(p)
       \/ \E p \in Producers : try_enqueue_load(p)
       \/ \E p \in Producers : try_enqueue_put(p)
       \/ \E p \in Producers : try_enqueue_store(p)
       \/ \E c \in Consumers : try_dequeue_fetch_add(c)
       \/ \E c \in Consumers : try_dequeue_load(c)
       \/ \E c \in Consumers : try_dequeue_take(c)
       \/ \E c \in Consumers : try_dequeue_store(c)

\* The fill/drain use of a fresh queue by one thread: try_enqueue is called
\* only while no try_dequeue has been called, and try_dequeue only after
\* capacity() calls of try_enqueue.
fill_call(p) == head_ = 0 /\ call_try_enqueue(p)
drain_call(c) == tail_ >= cap_ /\ call_try_dequeue(c)

(***************************************************************************)
(* lock_free_spsc_queue: one producer thread, one consumer thread.         *)
(***************************************************************************)
\* bound: the constructor is given capacities up to 2^MaxLog2Cap
MaxLog2Cap == 2
\* bound: number of values the producer pushes (1, 2, ..., MaxPush)
MaxPush == 5

RECURSIVE TwoTo(_)
TwoTo(n) == IF n = 0 THEN 1 ELSE 2 * TwoTo(n - 1)

\* the constructor's assert((cap_ & (cap_ - 1)) == 0)
spsc_assert(c) == BitAnd(c, c - 1) = 0

\* the capacities the constructor accepts, up to the bound
SpscCaps == {c \in 1..TwoTo(MaxLog2Cap) : spsc_assert(c)}

\* faulty variant: the index is advanced without wrapping around
next_no_wrap(i) == i + 1

\* next_(i) = (i + 1) & (cap_ - 1)
next_(i) == BitAnd(i + 1, spsc_cap - 1)

\* faulty variant: try_push never reports full
push_full_never(next, head) == FALSE

\* try_push: if (next == head_.load(acquire)) return false
push_full(next, head) == next = head

\* faulty variant: try_pop never reports empty
pop_empty_never(head, tail) == FALSE

\* try_pop: if (head == tail_.load(acquire)) return nullopt
pop_empty(head, tail) == head = tail

\* the value the producer offers: a counter, offered again after a rejected push
NextValue == Len(pushed) + 1

\* constructor: cap_(capacity), raw buffer, head_(0), tail_(0); threads not started
spsc_construct(c) ==
    /\ spsc_cap = c
    /\ spsc_head = 0
    /\ spsc_tail = 0
    /\ buffer_ = [i \in 0..(spsc_cap - 1) |-> NoVal]
    /\ push_pc = "idle" /\ push_tail = 0 /\ push_next = 0
    /\ pop_pc = "idle" /\ pop_head = 0 /\ pop_value = NoVal
    /\ pushed = <<>>
    /\ popped = <<>>
    /\ ms_pc = "idle" /\ ms_head = 0 /\ ms_size = 0

\* tail = tail_.load(relaxed); next = next_(tail)
try_push_load_tail ==
    /\ push_pc = "idle"
    /\ Len(pushed) < MaxPush
    /\ push_tail' = spsc_tail
    /\ push_next' = next_(spsc_tail)
    /\ push_pc' = "push_check"
    /\ UNCHANGED <<spsc_cap, spsc_head, spsc_tail, buffer_, pop_pc, pop_head, pop_value,
                   pushed, popped>>
    /\ UNCHANGED <<ms_pc, ms_head, ms_size>>
    /\ UNCHANGED <<qvars, mvars, pvars, lvars>>

\* if (next == head_.load(acquire)) return false
try_push_check ==
    /\ push_pc = "push_check"
    /\ IF push_full(push_next, spsc_head)
          THEN push_pc' = "idle" /\ push_tail' = 0 /\ push_next' = 0
          ELSE push_pc' = "push_write" /\ UNCHANGED <<push_tail, push_next>>
    /\ UNCHANGED <<spsc_cap, spsc_head, spsc_tail, buffer_, pop_pc, pop_head, pop_value,
                   pushed, popped>>
    /\ UNCHANGED <<ms_pc, ms_head, ms_size>>
    /\ UNCHANGED <<qvars, mvars, pvars, lvars>>

\* new (buffer_ + tail) T(std::move(value))
try_push_write ==
    /\ push_pc = "push_write"
    /\ buffer_' = [buffer_ EXCEPT ![push_tail] = NextValue]
    /\ push_pc' = "push_store"
    /\ UNCHANGED <<spsc_cap, spsc_head, spsc_tail, push_tail, push_next,
                   pop_pc, pop_head, pop_value, pushed, popped>>
    /\ UNCHANGED <<ms_pc, ms_head, ms_size>>
    /\ UNCHANGED <<qvars, mvars, pvars, lvars>>

\* tail_.store(next, release); return true
try_push_store ==
    /\ push_pc = "push_store"
    /\ spsc_tail' = push_next
    /\ pushed' = Append(pushed, NextValue)
    /\ push_pc' = "idle" /\ push_tail' = 0 /\ push_next' = 0
    /\ UNCHANGED <<spsc_cap, spsc_head, buffer_, pop_pc, pop_head, pop_value, popped>>
    /\ UNCHANGED <<ms_pc, ms_head, ms_size>>
    /\ UNCHANGED <<qvars, mvars, pvars, lvars>>

\* head = head_.load(relaxed)
try_pop_load_head ==
    /\ pop_pc = "idle"
    /\ pop_head' = spsc_head
    /\ pop_pc' = "pop_check"
    /\ UNCHANGED <<spsc_cap, spsc_head, spsc_tail, buffer_, push_pc, push_tail, push_next,
                   pop_value, pushed, popped>>
    /\ UNCHANGED <<ms_pc, ms_head, ms_size>>
    /\ UNCHANGED <<qvars, mvars, pvars, lvars>>

\* if (head == tail_.load(acquire)) return std::nullopt
try_pop_check ==
    /\ pop_pc = "pop_check"
    /\ IF pop_empty(pop_head, spsc_tail)
          THEN pop_pc' = "idle" /\ pop_head' = 0
          ELSE pop_pc' = "pop_move" /\ UNCHANGED pop_head
    /\ UNCHANGED <<spsc_cap, spsc_head, spsc_tail, buffer_, push_pc, push_tail, push_next,
                   pop_value, pushed, popped>>
    /\ UNCHANGED <<ms_pc, ms_head, ms_size>>
    /\ UNCHANGED <<qvars, mvars, pvars, lvars>>

\* T value(std::move(buffer_[head])); (buffer_ + head)->~T()
try_pop_move ==
    /\ pop_pc = "pop_move"
    /\ pop_value' = buffer_[pop_head]
    /\ buffer_' = [buffer_ EXCEPT ![pop_head] = NoVal]
    /\ pop_pc' = "pop_store"
    /\ UNCHANGED <<spsc_cap, spsc_head, spsc_tail, push_pc, push_tail, push_next,
                   pop_head, pushed, popped>>
    /\ UNCHANGED <<ms_pc, ms_head, ms_size>>
    /\ UNCHANGED <<qvars, mvars, pvars, lvars>>

\* head_.store(next_(head), release); return value
try_pop_store ==
    /\ pop_pc = "pop_store"
    /\ spsc_head' = next_(pop_head)
    /\ popped' = Append(popped, pop_value)
    /\ pop_pc' = "idle" /\ pop_head' = 0 /\ pop_value' = NoVal
    /\ UNCHANGED <<spsc_cap, spsc_tail, buffer_, push_pc, push_tail, push_next, pushed>>
    /\ UNCHANGED <<ms_pc, ms_head, ms_size>>
    /\ UNCHANGED <<qvars, mvars, pvars, lvars>>

\* capacity(): cap_ - 1
spsc_capacity == spsc_cap - 1

\* empty(): head_.load(acquire) == tail_.load(acquire)
empty == spsc_head = spsc_tail

\* maybe_size(): (tail - head + cap_) % cap_
maybe_size == (spsc_tail - spsc_head + spsc_cap) % spsc_cap

\* faulty variant: the difference of the indices without the reduction modulo cap_
maybe_size_raw(head, tail) == size_sub(tail, head)

\* maybe_size(): return (tail - head + cap_) % cap_, on std::size_t
maybe_size_of(head, tail) == ((size_sub(tail, head) + spsc_cap) % SizeMod) % spsc_cap

\* maybe_size(), called by any thread: head = head_.load(relaxed)
maybe_size_load_head ==
    /\ ms_pc = "idle"
    /\ ms_head' = spsc_head
    /\ ms_pc' = "load_tail"
    /\ UNCHANGED <<spsc_cap, spsc_head, spsc_tail, buffer_, push_pc, push_tail, push_next,
                   pop_pc, pop_head, pop_value, pushed, popped, ms_size>>
    /\ UNCHANGED <<qvars, mvars, pvars, lvars>>

\* tail = tail_.load(relaxed); return (tail - head + cap_) % cap_
maybe_size_return ==
    /\ ms_pc = "load_tail"
    /\ ms_size' = maybe_size_of(ms_head, spsc_tail)
    /\ ms_pc' = "idle"
    /\ ms_head' = 0
    /\ UNCHANGED <<spsc_cap, spsc_head, spsc_tail, buffer_, push_pc, push_tail, push_next,
                   pop_pc, pop_head, pop_value, pushed, popped>>
    /\ UNCHANGED <<qvars, mvars, pvars, lvars>>

\* no try_push or try_pop call is in progress
SpscQuiescent == push_pc = "idle" /\ pop_pc = "idle"

\* A single-threaded use of the ring: a call begins only when no call is in
\* progress.
call_try_push == SpscQuiescent /\ try_push_load_tail
call_try_pop == SpscQuiescent /\ try_pop_load_head

(***************************************************************************)
(* bounded_mpmc_pool: q_, stop_, sem_, workers_.                           *)
(* Submitting threads call submit(), each call with a fresh task           *)
(* 1, 2, ...; Closers call shutdown() (one of them may be the destructor). *)
(***************************************************************************)
Submitters == {1, 2}
Workers == {1, 2}
Closers == {1, 2}
Tasks == 1..TicketCap
\* no task: an empty std::function
NoTask == 0

\* workers_.size()
workers_size == Cardinality(Workers)

\* What a moved-from std::function holds is unspecified by the standard:
\* it is empty (libstdc++, libc++, MSVC) or still holds a target.
MovedFromStates == {"empty", "holds_target"}

\* what a task body does when invoked
TaskOutcomes == {"returns", "throws"}

\* constructor: q_(queue_capacity), stop_(false), sem_(0), one thread per worker
\* entering worker_loop
PInit ==
    /\ stop_ = FALSE
    /\ sem_ = 0
    /\ sub_pc = [s \in Submitters |-> "idle"]
    /\ sub_pos = [s \in Submitters |-> 0]
    /\ sub_task = [s \in Submitters |-> NoTask]
    /\ nsubmit = 0
    /\ w_pc = [w \in Workers |-> "acquire"]
    /\ w_pos = [w \in Workers |-> 0]
    /\ w_task = [w \in Workers |-> NoTask]
    /\ sh_pc = [c \in Closers |-> "idle"]
    /\ sh_i = [c \in Closers |-> 0]
    /\ joined = [w \in Workers |-> FALSE]
    /\ path = [t \in Tasks |-> "none"]
    /\ ret = [t \in Tasks |-> "none"]
    /\ executed = [t \in Tasks |-> 0]
    /\ caller_ran = [t \in Tasks |-> 0]
    /\ wake_permits = 0
    /\ stop_flips = 0
    /\ terminated = FALSE

\* ---- submit(F&& f) ----
\* Task t(std::forward<F>(f)); the argument Task(std::move(t)) is built, leaving t
\* moved-from; try_enqueue: pos = tail_.fetch_add(1, acq_rel)
submit_fetch_add(s) ==
    /\ ~terminated
    /\ sub_pc[s] = "idle"
    /\ nsubmit < TicketCap
    /\ nsubmit' = nsubmit + 1
    /\ sub_task' = [sub_task EXCEPT ![s] = nsubmit + 1]
    /\ sub_pos' = [sub_pos EXCEPT ![s] = tail_]
    /\ tail_' = tail_fetch_add
    /\ sub_pc' = [sub_pc EXCEPT ![s] = "enq_load"]
    /\ UNCHANGED <<head_, seq, storage, stop_, sem_, w_pc, w_pos, w_task, sh_pc, sh_i,
                   joined, path, ret, executed, caller_ran, wake_permits, stop_flips,
                   terminated>>
    /\ UNCHANGED <<mvars, svars, lvars>>

\* try_enqueue: seq = s.seq.load(acquire); if (diff != 0) return false;
\* the temporary holding the callable is destroyed with the call
submit_load(s) ==
    /\ ~terminated
    /\ sub_pc[s] = "enq_load"
    /\ IF enqueue_ready(seq[SlotOf(sub_pos[s])], sub_pos[s])
          THEN /\ sub_pc' = [sub_pc EXCEPT ![s] = "enq_put"]
               /\ path' = [path EXCEPT ![sub_task[s]] = "fast"]
          ELSE /\ sub_pc' = [sub_pc EXCEPT ![s] = "run_now"]
               /\ path' = [path EXCEPT ![sub_task[s]] = "slow"]
    /\ UNCHANGED <<qvars, stop_, sem_, sub_pos, sub_task, nsubmit, w_pc, w_pos, w_task,
                   sh_pc, sh_i, joined, ret, executed, caller_ran, wake_permits,
                   stop_flips, terminated>>
    /\ UNCHANGED <<mvars, svars, lvars>>

\* try_enqueue: s.put(std::move(value))
submit_put(s) ==
    /\ ~terminated
    /\ sub_pc[s] = "enq_put"
    /\ storage_put(sub_pos[s], sub_task[s])
    /\ sub_pc' = [sub_pc EXCEPT ![s] = "enq_store"]
    /\ UNCHANGED <<head_, tail_, seq, stop_, sem_, sub_pos, sub_task, nsubmit, w_pc, w_pos,
                   w_task, sh_pc, sh_i, joined, path, ret, executed, caller_ran,
                   wake_permits, stop_flips, terminated>>
    /\ UNCHANGED <<mvars, svars, lvars>>

\* try_enqueue: s.seq.store(pos + 1, release); return true
submit_store(s) ==
    /\ ~terminated
    /\ sub_pc[s] = "enq_store"
    /\ seq' = [seq EXCEPT ![SlotOf(sub_pos[s])] = enqueue_seq(sub_pos[s])]
    /\ sub_pc' = [sub_pc EXCEPT ![s] = "release"]
    /\ UNCHANGED <<head_, tail_, storage, stop_, sem_, sub_pos, sub_task, nsubmit, w_pc,
                   w_pos, w_task, sh_pc, sh_i, joined, path, ret, executed, caller_ran,
                   wake_permits, stop_flips, terminated>>
    /\ UNCHANGED <<mvars, svars, lvars>>

\* sem_.release(); return true
submit_release(s) ==
    /\ ~terminated
    /\ sub_pc[s] = "release"
    /\ sem_' = sem_ + 1
    /\ ret' = [ret EXCEPT ![sub_task[s]] = "true"]
    /\ sub_pc' = [sub_pc EXCEPT ![s] = "idle"]
    /\ sub_pos' = [sub_pos EXCEPT ![s] = 0]
    /\ sub_task' = [sub_task EXCEPT ![s] = NoTask]
    /\ UNCHANGED <<qvars, stop_, nsubmit, w_pc, w_pos, w_task, sh_pc, sh_i, joined, path,
                   executed, caller_ran, wake_permits, stop_flips, terminated>>
    /\ UNCHANGED <<mvars, svars, lvars>>

\* the body of submit's slow path, for a given state of the moved-from t:
\* Task run_now(std::move(t)); run_now(); return true.
\* Invoking an empty std::function throws std::bad_function_call.
run_now(s, t_state) ==
    IF t_state = "empty"
       THEN /\ ret' = [ret EXCEPT ![sub_task[s]] = "bad_function_call"]
            /\ UNCHANGED caller_ran
       ELSE /\ ret' = [ret EXCEPT ![sub_task[s]] = "true"]
            /\ caller_ran' = [caller_ran EXCEPT ![sub_task[s]] = @ + 1]

\* queue-full policy: Task run_now(std::move(t)); run_now(); return true
submit_run_now(s) ==
    /\ ~terminated
    /\ sub_pc[s] = "run_now"
    /\ \E t_state \in MovedFromStates : run_now(s, t_state)
    /\ sub_pc' = [sub_pc EXCEPT ![s] = "idle"]
    /\ sub_pos' = [sub_pos EXCEPT ![s] = 0]
    /\ sub_task' = [sub_task EXCEPT ![s] = NoTask]
    /\ UNCHANGED <<qvars, stop_, sem_, nsubmit, w_pc, w_pos, w_task, sh_pc, sh_i, joined,
                   path, executed, wake_permits, stop_flips, terminated>>
    /\ UNCHANGED <<mvars, svars, lvars>>

\* ---- worker_loop() ----
\* faulty variant: acquire() takes a permit without waiting for one
worker_acquire_no_wait(w) ==
    /\ ~terminated
    /\ w_pc[w] = "acquire"
    /\ sem_' = sem_ - 1
    /\ w_pc' = [w_pc EXCEPT ![w] = "check_stop"]
    /\ UNCHANGED <<qvars, stop_, sub_pc, sub_pos, sub_task, nsubmit, w_pos, w_task, sh_pc,
                   sh_i, joined, path, ret, executed, caller_ran, wake_permits,
                   stop_flips, terminated>>
    /\ UNCHANGED <<mvars, svars, lvars>>

\* sem_.acquire(): blocks while there is no permit
worker_acquire(w) ==
    /\ ~terminated
    /\ w_pc[w] = "acquire"
    /\ sem_ > 0
    /\ sem_' = sem_ - 1
    /\ w_pc' = [w_pc EXCEPT ![w] = "check_stop"]
    /\ UNCHANGED <<qvars, stop_, sub_pc, sub_pos, sub_task, nsubmit, w_pos, w_task, sh_pc,
                   sh_i, joined, path, ret, executed, caller_ran, wake_permits,
                   stop_flips, terminated>>
    /\ UNCHANGED <<mvars, svars, lvars>>

\* if (stop_.load(acquire)) break;  Task task;
worker_check_stop(w) ==
    /\ ~terminated
    /\ w_pc[w] = "check_stop"
    /\ w_pc' = [w_pc EXCEPT ![w] = IF stop_ THEN "exited" ELSE "deq_fetch"]
    /\ UNCHANGED <<qvars, stop_, sem_, sub_pc, sub_pos, sub_task, nsubmit, w_pos, w_task,
                   sh_pc, sh_i, joined, path, ret, executed, caller_ran, wake_permits,
                   stop_flips, terminated>>
    /\ UNCHANGED <<mvars, svars, lvars>>

\* try_dequeue: pos = head_.fetch_add(1, acq_rel)
worker_fetch_add(w) ==
    /\ ~terminated
    /\ w_pc[w] = "deq_fetch"
    /\ w_pos' = [w_pos EXCEPT ![w] = head_]
    /\ head_' = head_fetch_add
    /\ w_pc' = [w_pc EXCEPT ![w] = "deq_load"]
    /\ UNCHANGED <<tail_, seq, storage, stop_, sem_, sub_pc, sub_pos, sub_task, nsubmit,
                   w_task, sh_pc, sh_i, joined, path, ret, executed, caller_ran,
                   wake_permits, stop_flips, terminated>>
    /\ UNCHANGED <<mvars, svars, lvars>>

\* try_dequeue: seq = s.seq.load(acquire); if (diff != 0) return false
worker_load(w) ==
    /\ ~terminated
    /\ w_pc[w] = "deq_load"
    /\ IF dequeue_ready(seq[SlotOf(w_pos[w])], w_pos[w])
          THEN w_pc' = [w_pc EXCEPT ![w] = "deq_take"] /\ UNCHANGED w_pos
          ELSE w_pc' = [w_pc EXCEPT ![w] = "retry"] /\ w_pos' = [w_pos EXCEPT ![w] = 0]
    /\ UNCHANGED <<qvars, stop_, sem_, sub_pc, sub_pos, sub_task, nsubmit, w_task,
                   sh_pc, sh_i, joined, path, ret, executed, caller_ran, wake_permits,
                   stop_flips, terminated>>
    /\ UNCHANGED <<mvars, svars, lvars>>

\* try_dequeue: value = std::move(s.remove())
worker_take(w) ==
    /\ ~terminated
    /\ w_pc[w] = "deq_take"
    /\ w_task' = [w_task EXCEPT ![w] = storage[SlotOf(w_pos[w])]]
    /\ storage_take(w_pos[w])
    /\ w_pc' = [w_pc EXCEPT ![w] = "deq_store"]
    /\ UNCHANGED <<head_, tail_, seq, stop_, sem_, sub_pc, sub_pos, sub_task, nsubmit,
                   w_pos, sh_pc, sh_i, joined, path, ret, executed, caller_ran,
                   wake_permits, stop_flips, terminated>>
    /\ UNCHANGED <<mvars, svars, lvars>>

\* try_dequeue: s.seq.store(pos + cap_, release); return true
worker_store(w) ==
    /\ ~terminated
    /\ w_pc[w] = "deq_store"
    /\ seq' = [seq EXCEPT ![SlotOf(w_pos[w])] = dequeue_seq(w_pos[w])]
    /\ w_pos' = [w_pos EXCEPT ![w] = 0]
    /\ w_pc' = [w_pc EXCEPT ![w] = "run"]
    /\ UNCHANGED <<head_, tail_, storage, stop_, sem_, sub_pc, sub_pos, sub_task, nsubmit,
                   w_task, sh_pc, sh_i, joined, path, ret, executed, caller_ran,
                   wake_permits, stop_flips, terminated>>
    /\ UNCHANGED <<mvars, svars, lvars>>

\* faulty variant: the retry loop does not look at stop_
retry_target_spin == "deq_fetch"

\* where the retry loop goes after a failed try_dequeue:
\* if (stop_.load(relaxed)) return; std::this_thread::yield(); and again
retry_target == IF stop_ THEN "exited" ELSE "deq_fetch"

\* after a failed try_dequeue: if (stop_.load(relaxed)) return; std::this_thread::yield()
worker_retry(w) ==
    /\ ~terminated
    /\ w_pc[w] = "retry"
    /\ w_pc' = [w_pc EXCEPT ![w] = retry_target]
    /\ UNCHANGED <<qvars, stop_, sem_, sub_pc, sub_pos, sub_task, nsubmit, w_pos, w_task,
                   sh_pc, sh_i, joined, path, ret, executed, caller_ran, wake_permits,
                   stop_flips, terminated>>
    /\ UNCHANGED <<mvars, svars, lvars>>

\* what follows the call task() in worker_loop, for a given outcome of the task
\* body: nothing catches, so an exception leaves the thread function and the
\* runtime calls std::terminate
after_task(w, outcome) ==
    IF outcome = "throws"
       THEN /\ terminated' = TRUE
            /\ UNCHANGED <<w_pc, w_task>>
       ELSE /\ w_pc' = [w_pc EXCEPT ![w] = "acquire"]
            /\ w_task' = [w_task EXCEPT ![w] = NoTask]
            /\ UNCHANGED terminated

\* task();
worker_run(w) ==
    /\ ~terminated
    /\ w_pc[w] = "run"
    /\ executed' = [executed EXCEPT ![w_task[w]] = @ + 1]
    /\ \E outcome \in TaskOutcomes : after_task(w, outcome)
    /\ UNCHANGED <<qvars, stop_, sem_, sub_pc, sub_pos, sub_task, nsubmit, w_pos,
                   sh_pc, sh_i, joined, path, ret, caller_ran, wake_permits, stop_flips>>
    /\ UNCHANGED <<mvars, svars, lvars>>

\* ---- shutdown() ----
\* faulty variant: a plain store instead of the compare-exchange: every caller "wins"
stop_store == [value |-> TRUE, won |-> TRUE]

\* stop_.compare_exchange_strong(expected = false, true): the new value of
\* stop_ and whether the exchange succeeded
stop_cas == [value |-> TRUE, won |-> ~stop_]

\* if (!stop_.compare_exchange_strong(expected, true, acq_rel)) return;
shutdown_cas(c) ==
    /\ ~terminated
    /\ sh_pc[c] = "idle"
    /\ stop_' = stop_cas.value
    /\ stop_flips' = IF stop_cas.value # stop_ THEN stop_flips + 1 ELSE stop_flips
    /\ sh_pc' = [sh_pc EXCEPT ![c] = IF stop_cas.won THEN "release" ELSE "returned"]
    /\ UNCHANGED <<qvars, sem_, sub_pc, sub_pos, sub_task, nsubmit, w_pc, w_pos, w_task,
                   sh_i, joined, path, ret, executed, caller_ran, wake_permits, terminated>>
    /\ UNCHANGED <<mvars, svars, lvars>>

\* for (i = 0; i < workers_.size(); ++i) sem_.release();
shutdown_release(c) ==
    /\ ~terminated
    /\ sh_pc[c] = "release"
    /\ IF sh_i[c] < workers_size
          THEN /\ sem_' = sem_ + 1
               /\ wake_permits' = wake_permits + 1
               /\ sh_i' = [sh_i EXCEPT ![c] = @ + 1]
               /\ UNCHANGED sh_pc
          ELSE /\ sh_pc' = [sh_pc EXCEPT ![c] = "join"]
               /\ sh_i' = [sh_i EXCEPT ![c] = 0]
               /\ UNCHANGED <<sem_, wake_permits>>
    /\ UNCHANGED <<qvars, stop_, sub_pc, sub_pos, sub_task, nsubmit, w_pc, w_pos, w_task,
                   joined, path, ret, executed, caller_ran, stop_flips, terminated>>
    /\ UNCHANGED <<mvars, svars, lvars>>

\* for (auto& worker : workers_) if (worker.joinable()) worker.join();
\* join() returns once the worker's thread function has returned
shutdown_join(c) ==
    /\ ~terminated
    /\ sh_pc[c] = "join"
    /\ IF sh_i[c] < workers_size
          THEN /\ w_pc[sh_i[c] + 1] = "exited"
               /\ joined' = [joined EXCEPT ![sh_i[c] + 1] = TRUE]
               /\ sh_i' = [sh_i EXCEPT ![c] = @ + 1]
               /\ UNCHANGED sh_pc
          ELSE /\ sh_pc' = [sh_pc EXCEPT ![c] = "returned"]
               /\ sh_i' = [sh_i EXCEPT ![c] = 0]
               /\ UNCHANGED joined
    /\ UNCHANGED <<qvars, stop_, sem_, sub_pc, sub_pos, sub_task, nsubmit, w_pc, w_pos,
                   w_task, path, ret, executed, caller_ran, wake_permits, stop_flips,
                   terminated>>
    /\ UNCHANGED <<mvars, svars, lvars>>

(***************************************************************************)
(* Specifications                                                          *)
(***************************************************************************)
\* the bare MPMC queue driven by Producers and Consumers
InitMPMC == QueueInit(ReqCap) /\ MInit /\ spsc_construct(1) /\ PInit

NextMPMC ==
    \/ \E p \in Producers : try_enqueue_fetch_add(p)
    \/ \E p \in Producers : try_enqueue_load(p)
    \/ \E p \in Producers : try_enqueue_put(p)
    \/ \E p \in Producers : try_enqueue_store(p)
    \/ \E c \in Consumers : try_dequeue_fetch_add(c)
    \/ \E c \in Consumers : try_dequeue_load(c)
    \/ \E c \in Consumers : try_dequeue_take(c)
    \/ \E c \in Consumers : try_dequeue_store(c)

SpecMPMC == InitMPMC /\ [][NextMPMC]_vars

\* the MPMC queue used without overlapping calls
NextMPMCSeq ==
    \/ \E p \in Producers : call_try_enqueue(p)
    \/ \E p \in Producers : try_enqueue_load(p)
    \/ \E p \in Producers : try_enqueue_put(p)
    \/ \E p \in Producers : try_enqueue_store(p)
    \/ \E c \in Consumers : call_try_dequeue(c)
    \/ \E c \in Consumers : try_dequeue_load(c)
    \/ \E c \in Consumers : try_dequeue_take(c)
    \/ \E c \in Consumers : try_dequeue_store(c)

SpecMPMCSeq == InitMPMC /\ [][NextMPMCSeq]_vars

\* the SPSC ring, constructed with any accepted capacity
InitSPSC == QueueInit(ReqCap) /\ MInit /\ PInit /\ \E c \in SpscCaps : spsc_construct(c)

NextSPSC ==
    \/ try_push_load_tail
    \/ try_push_check
    \/ try_push_write
    \/ try_push_store
    \/ try_pop_load_head
    \/ try_pop_check
    \/ try_pop_move
    \/ try_pop_store

SpecSPSC == InitSPSC /\ [][NextSPSC]_vars

\* the MPMC queue used by its threads and then destroyed
NextMPMCDtor ==
    \/ queue_call
    \/ dtor_begin
    \/ dtor_visit
    \/ dtor_free

SpecMPMCDtor == InitMPMC /\ [][NextMPMCDtor]_vars

\* the MPMC queue filled, then drained, by one thread
NextFillDrain ==
    \/ \E p \in Producers : fill_call(p)
    \/ \E p \in Producers : try_enqueue_load(p)
    \/ \E p \in Producers : try_enqueue_put(p)
    \/ \E p \in Producers : try_enqueue_store(p)
    \/ \E c \in Consumers : drain_call(c)
    \/ \E c \in Consumers : try_dequeue_load(c)
    \/ \E c \in Consumers : try_dequeue_take(c)
    \/ \E c \in Consumers : try_dequeue_store(c)

SpecFillDrain == InitMPMC /\ [][NextFillDrain]_vars

\* the SPSC ring used without overlapping calls
NextSPSCSeq ==
    \/ call_try_push
    \/ try_push_check
    \/ try_push_write
    \/ try_push_store
    \/ call_try_pop
    \/ try_pop_check
    \/ try_pop_move
    \/ try_pop_store

SpecSPSCSeq == InitSPSC /\ [][NextSPSCSeq]_vars

\* the SPSC ring with its producer, its consumer and a thread calling maybe_size()
NextSPSCObserved ==
    \/ NextSPSC
    \/ maybe_size_load_head
    \/ maybe_size_return

SpecSPSCObserved == InitSPSC /\ [][NextSPSCObserved]_vars

\* the worker pool
InitPool == QueueInit(ReqCap) /\ MInit /\ spsc_construct(1) /\ PInit

NextPool ==
    \/ \E s \in Submitters : submit_fetch_add(s)
    \/ \E s \in Submitters : submit_load(s)
    \/ \E s \in Submitters : submit_put(s)
    \/ \E s \in Submitters : submit_store(s)
    \/ \E s \in Submitters : submit_release(s)
    \/ \E s \in Submitters : submit_run_now(s)
    \/ \E w \in Workers : worker_acquire(w)
    \/ \E w \in Workers : worker_check_stop(w)
    \/ \E w \in Workers : worker_fetch_add(w)
    \/ \E w \in Workers : worker_load(w)
    \/ \E w \in Workers : worker_take(w)
    \/ \E w \in Workers : worker_store(w)
    \/ \E w \in Workers : worker_retry(w)
    \/ \E w \in Workers : worker_run(w)
    \/ \E c \in Closers : shutdown_cas(c)
    \/ \E c \in Closers : shutdown_release(c)
    \/ \E c \in Closers : shutdown_join(c)

SpecPool == InitPool /\ [][NextPool]_vars

\* A client of the pool with two submitting threads: thread 1 submits the
\* first and the third task, thread 2 the second.
SubmitterOf(t) == IF t = 2 THEN 2 ELSE 1

\* thread s makes its next submit() call
submit_in_turn(s) ==
    /\ SubmitterOf(nsubmit + 1) = s
    /\ submit_fetch_add(s)

\* the pool of that client, over a queue that never gets full, before shutdown()
InitPoolOrder == QueueInit(2 * ReqCap) /\ MInit /\ spsc_construct(1) /\ PInit

NextPoolOrder ==
    \/ \E s \in Submitters : submit_in_turn(s)
    \/ \E s \in Submitters : submit_load(s)
    \/ \E s \in Submitters : submit_put(s)
    \/ \E s \in Submitters : submit_store(s)
    \/ \E s \in Submitters : submit_release(s)
    \/ \E w \in Workers : worker_acquire(w)
    \/ \E w \in Workers : worker_check_stop(w)
    \/ \E w \in Workers : worker_fetch_add(w)
    \/ \E w \in Workers : worker_load(w)
    \/ \E w \in Workers : worker_take(w)
    \/ \E w \in Workers : worker_store(w)
    \/ \E w \in Workers : worker_retry(w)
    \/ \E w \in Workers : worker_run(w)

SpecPoolOrder == InitPoolOrder /\ [][NextPoolOrder]_vars

\* the MPMC queue constructed with any requested capacity, then used
InitAnyCapacity ==
    /\ \E c \in DOMAIN CapacityOf : QueueInit(c)
    /\ MInit /\ spsc_construct(1) /\ PInit

SpecAnyCapacity == InitAnyCapacity /\ [][NextMPMC]_vars

\* The other constructor of mpmc_bounded_queue takes the slot count as given,
\* capacity_(cap), and checks it with assert((capacity_ & (capacity_ - 1)) == 0).
ctor_assert(cap) == BitAnd(cap, cap - 1) = 0
\* capacity() of the queue that constructor builds
asserted_capacity(cap) == cap

\* A program that uses one of the two queues: the MPMC queue while the SPSC
\* ring is as constructed, or the SPSC ring while the MPMC queue is.
MpmcFresh == head_ = 0 /\ tail_ = 0 /\ MpmcQuiescent
SpscFresh == pushed = <<>> /\ SpscQuiescent

NextEitherQueue ==
    \/ SpscFresh /\ NextMPMC
    \/ MpmcFresh /\ NextSPSC

SpecEitherQueue == InitSPSC /\ [][NextEitherQueue]_vars

(***************************************************************************)
(* Fair versions.  Threads that are inside a call keep being scheduled;    *)
(* whether a new submit() or shutdown() call is made at all, and whether a *)
(* producer offers another value, is up to the caller (no fairness).       *)
(* Consumers of the bare queue and pool workers run their loops for ever.  *)
(***************************************************************************)
ProducerProgress(p) ==
    try_enqueue_load(p) \/ try_enqueue_put(p) \/ try_enqueue_store(p)

ConsumerStep(c) ==
    \/ try_dequeue_fetch_add(c) \/ try_dequeue_load(c)
    \/ try_dequeue_take(c) \/ try_dequeue_store(c)

FairSpecMPMC ==
    /\ SpecMPMC
    /\ \A p \in Producers : WF_vars(ProducerProgress(p))
    /\ \A c \in Consumers : WF_vars(ConsumerStep(c))

SubmitProgress(s) ==
    \/ submit_load(s) \/ submit_put(s) \/ submit_store(s)
    \/ submit_release(s) \/ submit_run_now(s)

WorkerStep(w) ==
    \/ worker_acquire(w) \/ worker_check_stop(w) \/ worker_fetch_add(w)
    \/ worker_load(w) \/ worker_take(w) \/ worker_store(w)
    \/ worker_retry(w) \/ worker_run(w)

ShutdownProgress(c) == shutdown_release(c) \/ shutdown_join(c)

FairSpecPool ==
    /\ SpecPool
    /\ \A s \in Submitters : WF_vars(SubmitProgress(s))
    /\ \A w \in Workers : WF_vars(WorkerStep(w))
    /\ \A c \in Closers : WF_vars(ShutdownProgress(c))

(***************************************************************************)
(* Claims                                                                  *)
(***************************************************************************)
\* tickets whose try_enqueue / try_dequeue returned true
EnqTickets == {k \in Tickets : enqAt[k] # Absent}
DeqTickets == {k \in Tickets : deqAt[k] # Absent}

\* number of successful operations with a smaller ticket
RankIn(S, k) == Cardinality({j \in S : j < k})

\* C1 (as claimed): with the successful operations ordered by ticket, the k-th
\* successful try_dequeue returns the value of the k-th successful try_enqueue.
\* Stated on the states in which no call is in progress.
C1_TicketFifo ==
    MpmcQuiescent =>
        \A k \in DeqTickets :
            \E j \in EnqTickets :
                /\ RankIn(EnqTickets, j) = RankIn(DeqTickets, k)
                /\ deqAt[k] = enqAt[j]

\* C5: no value is returned by two successful try_dequeue calls, every returned
\* value is the one a successful try_enqueue published (under the same ticket),
\* and two values of one producer are claimed by consumer tickets in the
\* producer's submission order.
C5_NoDupPerProducerOrder ==
    /\ \A k \in DeqTickets : deqAt[k] = enqAt[k]
    /\ \A j, k \in DeqTickets : j # k => deqAt[j] # deqAt[k]
    /\ \A j, k \in DeqTickets :
          (/\ ProducerOf(deqAt[j]) = ProducerOf(deqAt[k])
           /\ CounterOf(deqAt[j]) < CounterOf(deqAt[k])) => j < k

\* C5 witness: two values of one producer and a value of another producer
\* have all been dequeued.
C5_Witness ==
    \E i, j, k \in DeqTickets :
        /\ j < k
        /\ ProducerOf(deqAt[j]) = ProducerOf(deqAt[k])
        /\ ProducerOf(deqAt[i]) # ProducerOf(deqAt[j])

\* C6 (as claimed): with consumers that keep calling try_dequeue, every
\* published item is eventually returned by a try_dequeue.
C6_NoStall ==
    \A k \in 0..(TicketCap - 1) : (enqAt[k] # Absent) ~> (deqAt[k] # Absent)

\* C2: the values returned by successful try_pop calls are a prefix of the
\* values accepted by successful try_push calls, in push order.
C2_SpscFifo ==
    /\ Len(popped) <= Len(pushed)
    /\ \A i \in 1..Len(popped) : popped[i] = pushed[i]

\* C2 witness: on a ring of 2 cells the indices have wrapped and three values
\* have come out while the producer is inside a further push.
C2_Witness ==
    /\ spsc_cap = 2
    /\ Len(popped) >= 3
    /\ push_pc = "push_store"

\* every submit() so far took the fast path, no shutdown was requested and no
\* task exception has ended the process
FastPathOnly ==
    /\ \A u \in Tasks : path[u] # "slow"
    /\ ~stop_
    /\ ~terminated

\* C3 (as claimed): while every submit() enqueues on the fast path and shutdown
\* is not requested, a task whose submit() has returned is eventually executed
\* by a worker.  (The right-hand side is also reached when the premise ends:
\* a slow-path submit, a shutdown request or a terminated process.)
C3_NoTaskLoss ==
    \A t \in Tasks :
        (path[t] = "fast" /\ ret[t] = "true") ~> (executed[t] = 1 \/ ~FastPathOnly)

\* C4 (as claimed): when submit(f) does not enqueue f, f has been invoked exactly
\* once on the submitting thread when submit ends, and submit returns true.
C4_CallerRuns ==
    \A t \in Tasks :
        (path[t] = "slow" /\ ret[t] # "none") => (caller_ran[t] = 1 /\ ret[t] = "true")

\* every worker has left worker_loop and has been joined
AllWorkersJoined == \A w \in Workers : w_pc[w] = "exited" /\ joined[w]

\* C7 (as claimed): when any shutdown() call has returned, every worker has
\* exited its loop and been joined.
C7_NoWorkerOutlivesShutdown ==
    \A c \in Closers : sh_pc[c] = "returned" => AllWorkersJoined

\* C8: once a shutdown() call has set the flag, and provided task bodies return
\* (a task that throws ends the process instead), every worker eventually exits
\* and is joined, and no shutdown() call is left in progress.
C8_ShutdownTerminates ==
    stop_ ~> \/ terminated
             \/ AllWorkersJoined /\ \A c \in Closers : sh_pc[c] \in {"idle", "returned"}

\* C8 witness: the flag is set and all wake permits are out while one worker
\* spins in the dequeue retry loop, and another is running a task.
C8_Witness ==
    /\ stop_
    /\ wake_permits = workers_size
    /\ \E w1, w2 \in Workers : w_pc[w1] = "retry" /\ w_pc[w2] = "run"

\* C9: stop_ changes once at most (false to true) and never back, shutdown()
\* releases workers_.size() wake permits in total, and a shutdown() call that
\* finds the flag set returns at once, leaving flag, semaphore, workers and
\* queue as they are.
C9_Counts ==
    /\ stop_flips <= 1
    /\ stop_flips = 1 <=> stop_
    /\ wake_permits <= workers_size
    /\ \A c \in Closers : sh_pc[c] = "join" => wake_permits = workers_size
    /\ (\E c \in Closers : sh_pc[c] = "returned") =>
           (stop_ /\ (wake_permits = workers_size \/ \E d \in Closers : sh_pc[d] = "release"))

C9_LaterCallIsNoOp ==
    \A c \in Closers :
        (stop_ /\ sh_pc[c] = "idle" /\ sh_pc'[c] # "idle") =>
            /\ sh_pc'[c] = "returned"
            /\ UNCHANGED <<stop_, sem_, w_pc, joined, wake_permits, stop_flips, qvars>>

C9_ShutdownOnce ==
    /\ []C9_Counts
    /\ [][(stop_ => stop_') /\ C9_LaterCallIsNoOp]_vars

\* C9 witness: both shutdown() calls have returned, one of them a no-op, and
\* exactly workers_.size() wake permits were released.
C9_Witness ==
    /\ \A c \in Closers : sh_pc[c] = "returned"
    /\ wake_permits = workers_size
    /\ stop_flips = 1

\* C10 (as claimed): a task that raises an exception does not take the worker
\* or the pool down: the process is never terminated by a task exception.
C10_TaskExceptionContained == ~terminated

\* items held: published by a successful try_enqueue, not yet returned by a
\* successful try_dequeue
HeldTickets == EnqTickets \ DeqTickets
Held == Cardinality(HeldTickets)

\* C11 (as claimed): a try_enqueue that runs with no other call in progress
\* returns false exactly when the queue holds capacity() items, and goes on to
\* store its value otherwise.
C11_FullTruthful ==
    [][\A p \in Producers :
          (ppc[p] = "enq_load" /\ ppc'[p] # "enq_load") =>
              ((ppc'[p] = "idle") <=> (Held = cap_))]_vars

\* the item enqueued first among those held
OldestHeld == CHOOSE k \in HeldTickets : \A j \in HeldTickets : k <= j

\* C12 (as claimed): a try_dequeue that runs with no other call in progress
\* returns false exactly when the queue holds no item, and otherwise returns
\* the oldest item held.
C12_EmptyTruthful ==
    [][\A c \in Consumers :
          /\ (cpc[c] = "deq_load" /\ cpc'[c] # "deq_load") =>
                 ((cpc'[c] = "idle") <=> (Held = 0))
          /\ (cpc[c] = "deq_store" /\ cpc'[c] = "idle") =>
                 (HeldTickets # {} /\ cout[c] = enqAt[OldestHeld])]_vars

\* successful pushes not yet matched by a successful pop
Outstanding == Len(pushed) - Len(popped)

\* C13 (as claimed): on a ring of N slots at most N-1 pushes are outstanding,
\* and a try_pop that finds exactly N-1 items outstanding succeeds.
C13_SpscCapacity ==
    [][/\ Outstanding <= spsc_cap - 1
       /\ Outstanding' <= spsc_cap' - 1
       /\ (/\ pop_pc = "pop_check"
           /\ pop_pc' # "pop_check"
           /\ Outstanding = spsc_cap - 1) => pop_pc' = "pop_move"]_vars

\* C14: used by one thread, the ring answers as a FIFO queue bounded at N-1
\* elements whose content is the pushed values not yet popped: try_push fails
\* exactly when N-1 items are held, try_pop fails exactly when none is held and
\* otherwise returns the oldest, and between calls empty() tells whether no
\* item is held and maybe_size() is the number held.
C14_SpscSequential ==
    [][/\ (push_pc = "push_check" /\ push_pc' # "push_check") =>
              ((push_pc' = "idle") <=> (Outstanding = spsc_cap - 1))
       /\ (pop_pc = "pop_check" /\ pop_pc' # "pop_check") =>
              ((pop_pc' = "idle") <=> (Outstanding = 0))
       /\ (pop_pc = "pop_store" /\ pop_pc' = "idle") =>
              (Outstanding > 0 /\ pop_value = pushed[Len(popped) + 1])
       /\ SpscQuiescent' =>
              /\ empty' <=> (Outstanding' = 0)
              /\ maybe_size' = Outstanding']_vars

\* C14 witness: on a ring of 4 cells the indices have wrapped (tail is behind
\* head) and the ring is full between two calls.
C14_Witness ==
    /\ spsc_cap = 4
    /\ SpscQuiescent
    /\ spsc_tail < spsc_head
    /\ Outstanding = 3
    /\ maybe_size = 3

\* the try_enqueue / try_dequeue call that took ticket k has returned
EnqDone(k) == k < tail_ /\ \A p \in Producers : ~(ppc[p] # "idle" /\ ppos[p] = k)
DeqDone(k) == k < head_ /\ \A c \in Consumers : ~(cpc[c] # "idle" /\ cpos[c] = k)

\* C15: on a fresh queue of capacity N filled and then drained by one thread,
\* the first N try_enqueue calls succeed and the further ones fail; the first
\* N try_dequeue calls then return the accepted values in enqueue order, and
\* the later ones fail.
C15_FillDrain ==
    /\ \A k \in Tickets : EnqDone(k) => ((enqAt[k] # Absent) <=> (k < cap_))
    /\ \A k \in Tickets :
          DeqDone(k) => IF k < cap_ THEN deqAt[k] # Absent /\ deqAt[k] = enqAt[k]
                                    ELSE deqAt[k] = Absent
    /\ deqAt[TicketCap] = Absent
    /\ \A i \in 1..Len(deqOrder) : i <= Len(enqOrder) /\ deqOrder[i] = enqOrder[i]

\* C15 witness: a try_enqueue beyond the capacity has failed, all accepted
\* values have come out, and a further try_dequeue has failed.
C15_Witness ==
    /\ MpmcQuiescent
    /\ tail_ > cap_
    /\ Len(deqOrder) = cap_
    /\ DeqDone(cap_)

\* payloads alive in the slots
LivePayloads == {storage[i] : i \in {j \in SlotIdx : storage[j] # NoVal}}

\* C16: whenever no call is in progress, the slots holding a live payload are
\* as many as the successful enqueues minus the successful dequeues, and the
\* payloads held are the enqueued values less the dequeued ones (every value
\* is enqueued once, so the multisets are sets).
C16_Conservation ==
    MpmcQuiescent =>
        /\ Cardinality({i \in SlotIdx : storage[i] # NoVal})
               = Cardinality(EnqTickets) - Cardinality(DeqTickets)
        /\ Len(enqOrder) = Cardinality(EnqTickets)
        /\ Len(deqOrder) = Cardinality(DeqTickets)
        /\ LivePayloads = {enqAt[k] : k \in EnqTickets} \ {deqAt[k] : k \in DeqTickets}
        /\ {deqAt[k] : k \in DeqTickets} \subseteq {enqAt[k] : k \in EnqTickets}

\* C16 witness: between calls, after failed calls on both sides, one value has
\* been dequeued and another is still held.
C16_Witness ==
    /\ MpmcQuiescent
    /\ Cardinality(DeqTickets) = 1
    /\ Cardinality(EnqTickets) = 2
    /\ head_ > 1
    /\ tail_ > 2

\* C17 (as claimed): when the destructor of a queue with no call in progress
\* has finished, every payload that was held has been destroyed by it exactly
\* once: none is left alive in a slot, and the payloads it removed are the
\* held ones, each once.
C17_DestructorSafety ==
    d_pc = "freed" =>
        /\ LivePayloads = {}
        /\ {d_removed[i] : i \in 1..Len(d_removed)} = {enqAt[k] : k \in HeldTickets}
        /\ Len(d_removed) = Held

\* try_enqueue and try_dequeue calls in progress
InProgress ==
    Cardinality({p \in Producers : ppc[p] # "idle"})
    + Cardinality({c \in Consumers : cpc[c] # "idle"})

AbsDiff(a, b) == IF a >= b THEN a - b ELSE b - a

\* C18 (as claimed): in every reachable state the value maybe_size() returns
\* differs from the number of items held by at most the number of calls in
\* progress; with no call in progress it is the number of items held.
C18_MaybeSizeAccuracy == AbsDiff(mpmc_maybe_size, Held) <= InProgress

\* s is an initial part of t
IsPrefix(s, t) == Len(s) <= Len(t) /\ \A i \in 1..Len(s) : s[i] = t[i]

\* C19 (as claimed): the successful operations, each taking effect at its
\* release-store to seq, form a FIFO-queue history: the values returned by the
\* dequeues, in the order of their seq-stores, are the values enqueued, in the
\* order of the enqueues' seq-stores.
C19_LinearizableAtSeqStore == IsPrefix(deqOrder, enqOrder)

\* submit() takes the producer ticket and the task in one step, so task t
\* holds producer ticket t - 1
TaskTicket(t) == t - 1

\* a worker has taken task t out of its slot
Obtained(t) == executed[t] >= 1 \/ \E w \in Workers : w_task[w] = t

\* a worker is inside try_dequeue with the consumer ticket that matches task t
DequeueStarted(t) ==
    \E w \in Workers : w_pc[w] \in {"deq_load", "deq_take"} /\ w_pos[w] = TaskTicket(t)

\* C20 (as claimed): when one thread submits a then b and both go the fast
\* path, a worker obtains b only when a has been dequeued or the try_dequeue
\* that holds a's consumer ticket is under way.
C20_SubmitterOrder ==
    \A a, b \in Tasks :
        (/\ a < b
         /\ SubmitterOf(a) = SubmitterOf(b)
         /\ path[a] = "fast"
         /\ path[b] = "fast"
         /\ Obtained(b))
        => (Obtained(a) \/ DequeueStarted(a))

\* the steps of a call that follow its first step
ConsumerProgress(c) ==
    try_dequeue_load(c) \/ try_dequeue_take(c) \/ try_dequeue_store(c)
PushProgress == try_push_check \/ try_push_write \/ try_push_store
PopProgress == try_pop_check \/ try_pop_move \/ try_pop_store

\* how far into its call a thread is: after the first, second, third step;
\* 4 once it has returned
CallRank(pc) ==
    CASE pc \in {"enq_load", "deq_load", "push_check", "pop_check"} -> 1
      [] pc \in {"enq_put", "deq_take", "push_write", "pop_move"} -> 2
      [] pc \in {"enq_store", "deq_store", "push_store", "pop_store"} -> 3
      [] OTHER -> 4

\* a thread inside a call only moves forward in it
Forward(pc, next_pc) == (pc # "idle" /\ next_pc # pc) => CallRank(next_pc) > CallRank(pc)

\* a thread inside a call can take its next step, wherever the other threads are
CanStep ==
    /\ \A p \in Producers : ppc[p] # "idle" => ENABLED <<ProducerProgress(p)>>_vars
    /\ \A c \in Consumers : cpc[c] # "idle" => ENABLED <<ConsumerProgress(c)>>_vars
    /\ push_pc # "idle" => ENABLED <<PushProgress>>_vars
    /\ pop_pc # "idle" => ENABLED <<PopProgress>>_vars

\* C21: a queue operation never waits and never loops: in every state a thread
\* inside try_push, try_pop, try_enqueue or try_dequeue can take its next
\* step whatever the other threads are doing, and every step takes it forward
\* in the call, which returns after at most four of the thread's own steps.
C21_NeverBlocks ==
    [][/\ CanStep
       /\ \A p \in Producers : Forward(ppc[p], ppc'[p])
       /\ \A c \in Consumers : Forward(cpc[c], cpc'[c])
       /\ Forward(push_pc, push_pc')
       /\ Forward(pop_pc, pop_pc')]_vars

\* C21 witness: a producer is inside try_enqueue with a ticket whose slot is
\* not free while both consumers and the other producer are in the middle of
\* calls of their own.
C21_Witness ==
    /\ \E p \in Producers :
          /\ ppc[p] = "enq_load"
          /\ ~enqueue_ready(seq[SlotOf(ppos[p])], ppos[p])
          /\ \E q \in Producers : q # p /\ ppc[q] = "enq_store"
    /\ \A c \in Consumers : cpc[c] # "idle"

IsPow2(n) == \E k \in 0..(2 * ReqCap) : n = TwoTo(k)
SmallestPow2AtLeast(n, m) == IsPow2(n) /\ n >= m /\ \A j \in m..(n - 1) : ~IsPow2(j)
AtLeast2(c) == IF c < 2 THEN 2 ELSE c

\* C22 (as claimed): for every requested capacity c the constructed queue has
\* capacity() equal to the smallest power of two >= max(c, 2), whichever
\* constructor built it, and before any ticket is taken head and tail are 0
\* and slot i has seq = i for every i below capacity().
C22_Construction ==
    /\ SmallestPow2AtLeast(cap_, AtLeast2(capacity))
    /\ (head_ = 0 /\ tail_ = 0) => seq = [i \in 0..(cap_ - 1) |-> i]
    /\ ctor_assert(capacity) =>
           SmallestPow2AtLeast(asserted_capacity(capacity), AtLeast2(capacity))

\* C23 (as claimed): the SPSC constructor rejects every capacity that is not a
\* power of two or is below 2, so a constructed ring has a power of two
\* N >= 2 for its slot count, and capacity() is N - 1.
C23_SpscConfigRejected ==
    /\ \A c \in 1..TwoTo(MaxLog2Cap) : (~IsPow2(c) \/ c < 2) => ~spsc_assert(c)
    /\ IsPow2(spsc_cap)
    /\ spsc_cap >= 2
    /\ spsc_capacity = spsc_cap - 1

\* C24: whatever the producer and the consumer are doing, maybe_size() returns
\* a value in 0..N-1, and a call made while no push or pop is in progress
\* returns successful pushes minus successful pops.
C24_SpscMaybeSize ==
    [][(ms_pc = "load_tail" /\ ms_pc' = "idle") =>
          /\ ms_size' \in 0..(spsc_cap - 1)
          /\ (SpscQuiescent /\ ms_head = spsc_head) => ms_size' = Outstanding]_vars

\* C24 witness: maybe_size() has returned a value that is not the number of
\* items outstanding, while a push and a pop are in progress.
C24_Witness ==
    /\ ms_pc = "idle"
    /\ ms_size > 0
    /\ ms_size # Outstanding
    /\ push_pc # "idle"
    /\ pop_pc # "idle"

\* the threads between observing the matching seq of slot i and storing its next seq
ProducersHolding(i) ==
    {p \in Producers : ppc[p] \in {"enq_put", "enq_store"} /\ SlotOf(ppos[p]) = i}
ConsumersHolding(i) ==
    {c \in Consumers : cpc[c] \in {"deq_take", "deq_store"} /\ SlotOf(cpos[c]) = i}

\* C25: at most one thread at a time is between observing a slot's matching
\* seq and storing the slot's next seq; a producer about to construct a payload
\* finds the slot without a live payload, and a consumer about to remove one
\* finds a live payload in the slot.
C25_SlotExclusive ==
    /\ \A i \in SlotIdx :
          Cardinality(ProducersHolding(i)) + Cardinality(ConsumersHolding(i)) <= 1
    /\ \A p \in Producers : ppc[p] = "enq_put" => storage[SlotOf(ppos[p])] = NoVal
    /\ \A c \in Consumers : cpc[c] = "deq_take" => storage[SlotOf(cpos[c])] # NoVal

\* C25 witness: a producer constructs into a slot for the second time (its
\* ticket is the first one that wraps around) while a consumer is removing the
\* payload of another slot.
C25_Witness ==
    /\ \E p \in Producers : ppc[p] = "enq_put" /\ ppos[p] >= cap_
    /\ \E c \in Consumers : cpc[c] = "deq_take"

\* the producer is between its full test and the store to tail_: cell
\* push_tail is its own to construct into
PushHolds(i) == push_pc \in {"push_write", "push_store"} /\ push_tail = i
\* the consumer is between its empty test and the store to head_: cell
\* pop_head is its own to move out of and destroy
PopHolds(i) == pop_pc \in {"pop_move", "pop_store"} /\ pop_head = i

\* C26: the producer's construction in a cell and the consumer's read of the
\* same cell never overlap: the consumer reads a cell only when the payload
\* pushed there has been constructed and published, the producer constructs
\* only into a cell whose previous payload has been destroyed, and each
\* popped value is the value that was pushed.
C26_SpscNoTornValues ==
    /\ \A i \in 0..(spsc_cap - 1) : ~(PushHolds(i) /\ PopHolds(i))
    /\ pop_pc = "pop_move" =>
           /\ Len(popped) < Len(pushed)
           /\ buffer_[pop_head] = pushed[Len(popped) + 1]
    /\ push_pc = "push_write" => buffer_[push_tail] = NoVal
    /\ \A i \in 1..Len(popped) : popped[i] = pushed[i]

\* C26 witness: the ring has wrapped around: the producer is about to construct
\* into a cell used before while the consumer is reading another cell.
C26_Witness ==
    /\ push_pc = "push_write"
    /\ Len(pushed) >= spsc_cap
    /\ pop_pc = "pop_move"
    /\ Len(popped) >= 1

\* slot i is free for a producer (seq = i modulo N) or holds a published
\* payload (seq = i + 1 modulo N)
SeqFree(i, sq) == sq % cap_ = i
SeqPublished(i, sq) == sq % cap_ = (i + 1) % cap_

\* C27: the seq of slot i is i before any ticket is taken and is always
\* congruent to i or i + 1 modulo N; it changes only by +1, stored by the
\* producer whose ticket it equalled, or by +(N-1), stored by the consumer whose
\* ticket it was one above; the two kinds of change alternate, and seq never
\* decreases.
C27_SeqProtocol ==
    [][\A i \in SlotIdx :
          /\ (head_ = 0 /\ tail_ = 0) => seq[i] = i
          /\ SeqFree(i, seq[i]) \/ SeqPublished(i, seq[i])
          /\ SeqFree(i, seq'[i]) \/ SeqPublished(i, seq'[i])
          /\ seq'[i] >= seq[i]
          /\ seq'[i] # seq[i] =>
                \/ /\ seq'[i] = seq[i] + 1
                   /\ SeqFree(i, seq[i]) /\ SeqPublished(i, seq'[i])
                   /\ \E p \in Producers :
                         ppc[p] = "enq_store" /\ ppos[p] = seq[i] /\ ppc'[p] = "idle"
                \/ /\ seq'[i] = seq[i] + (cap_ - 1)
                   /\ SeqPublished(i, seq[i]) /\ SeqFree(i, seq'[i])
                   /\ \E c \in Consumers :
                         cpc[c] = "deq_store" /\ cpos[c] + 1 = seq[i] /\ cpc'[c] = "idle"]_vars

\* C27 witness: a slot has been published, freed and published again
C27_Witness == \E i \in SlotIdx : seq[i] = i + cap_ + 1

\* head and tail are indices of the ring; they are equal exactly when nothing
\* is waiting to be popped, and tail is one step behind head exactly when N-1
\* items are waiting
SpscIndexInv ==
    /\ spsc_head \in 0..(spsc_cap - 1)
    /\ spsc_tail \in 0..(spsc_cap - 1)
    /\ (spsc_head = spsc_tail) <=> (Outstanding = 0)
    /\ ((spsc_tail + 1) % spsc_cap = spsc_head) <=> (Outstanding = spsc_cap - 1)

\* C28: head and tail stay in 0..N-1; head = tail exactly when no item is
\* waiting and (tail + 1) mod N = head exactly when N-1 items are waiting;
\* tail is written only by the producer and head only by the consumer; each
\* successful try_push or try_pop advances its index by one modulo N.
C28_SpscIndices ==
    [][/\ SpscIndexInv
       /\ SpscIndexInv'
       /\ spsc_tail' # spsc_tail => (push_pc = "push_store" /\ push_pc' = "idle")
       /\ spsc_head' # spsc_head => (pop_pc = "pop_store" /\ pop_pc' = "idle")
       /\ Len(pushed') # Len(pushed) =>
              (spsc_tail' = (spsc_tail + 1) % spsc_cap /\ spsc_head' = spsc_head)
       /\ Len(popped') # Len(popped) =>
              (spsc_head' = (spsc_head + 1) % spsc_cap /\ spsc_tail' = spsc_tail)]_vars

\* C28 witness: a ring of 4 slots is full with tail wrapped around behind head
C28_Witness ==
    /\ spsc_cap = 4
    /\ Outstanding = 3
    /\ spsc_tail < spsc_head
    /\ (spsc_tail + 1) % spsc_cap = spsc_head

\* workers that have acquired a permit and have not yet completed a successful try_dequeue
WorkersWithPermit ==
    {w \in Workers :
        w_pc[w] \in {"check_stop", "deq_fetch", "deq_load", "deq_take", "deq_store", "retry"}}

\* slots that hold a published task no try_dequeue has completed on
PublishedSlots == {i \in SlotIdx : seq[i] # i /\ SeqPublished(i, seq[i])}

\* C29: while the shutdown flag is not set, the permits in the semaphore plus
\* the workers that hold a permit and have not completed a successful
\* try_dequeue are at most the tasks published and not yet dequeued; the
\* semaphore count is never negative.
C29_PermitsBacked ==
    /\ sem_ >= 0
    /\ ~stop_ => sem_ + Cardinality(WorkersWithPermit) <= Cardinality(PublishedSlots)

\* C29 witness: a permit is available while a worker whose try_dequeue failed
\* is about to retry, before shutdown.
C29_Witness ==
    /\ ~stop_
    /\ sem_ >= 1
    /\ \E w \in Workers : w_pc[w] = "retry"

\* some shutdown() call has returned
ShutdownReturned == \E c \in Closers : sh_pc[c] = "returned"

\* C30 (as claimed): a worker that comes back from acquire() with the flag set
\* exits without calling try_dequeue; a worker whose try_dequeue has failed
\* exits instead of retrying when the flag is set; and once a shutdown() call
\* has returned no worker takes a task out of the queue or runs one.
C30_NoWorkAfterShutdown ==
    [][\A w \in Workers :
          /\ (w_pc[w] = "check_stop" /\ stop_ /\ w_pc'[w] # "check_stop") =>
                 w_pc'[w] = "exited"
          /\ (w_pc[w] = "retry" /\ stop_ /\ w_pc'[w] # "retry") =>
                 w_pc'[w] = "exited"
          /\ (ShutdownReturned /\ w_pc[w] = "deq_take") => w_pc'[w] = "deq_take"
          /\ ShutdownReturned => executed' = executed]_vars

\* C31: the two steps of a try_enqueue that returns false add one to tail and
\* change nothing else of the queue: head, every seq and every payload stay as
\* they are and the argument is stored nowhere.  The two steps of a
\* try_dequeue that returns false add one to head (below TicketCap, where the
\* model lets head rest) and leave tail, every seq, every payload and the
\* caller's output variable as they are.
C31_FailedOpsFrame ==
    [][/\ \A p \in Producers :
             /\ (ppc[p] = "idle" /\ ppc'[p] = "enq_load") =>
                    /\ tail_' = tail_ + 1
                    /\ UNCHANGED <<head_, seq, storage, enqAt, deqAt, cout>>
             /\ (ppc[p] = "enq_load" /\ ppc'[p] = "idle") =>
                    UNCHANGED <<head_, tail_, seq, storage, enqAt, deqAt, cout>>
       /\ \A c \in Consumers :
             /\ (cpc[c] = "idle" /\ cpc'[c] = "deq_load") =>
                    /\ head_ < TicketCap => head_' = head_ + 1
                    /\ UNCHANGED <<tail_, seq, storage, enqAt, deqAt, cout>>
             /\ (cpc[c] = "deq_load" /\ cpc'[c] = "idle") =>
                    UNCHANGED <<head_, tail_, seq, storage, enqAt, deqAt, cout>>]_vars

\* C31 witness: with no call in progress, a try_enqueue has returned false (a
\* producer ticket published nothing), a try_dequeue has returned false (a
\* consumer ticket returned nothing) and a consumer still has the value of an
\* earlier successful try_dequeue in its output variable.
C31_Witness ==
    /\ MpmcQuiescent
    /\ Cardinality(EnqTickets) < tail_
    /\ Cardinality(DeqTickets) >= 1
    /\ head_ < TicketCap
    /\ Cardinality(DeqTickets) < head_
    /\ \E c \in Consumers : cout[c] # NoVal

====
